---- MODULE Spec2Model ----
(***************************************************************************)
(* Model of the finance_chat expense bot: the spreadsheet store            *)
(* (src/sheets_integration.py, class SheetsManager) and the webhook router *)
(* (src/app.py, telegram_webhook).                                         *)
(*                                                                         *)
(* The spreadsheet is modelled as the source sees it through the Sheets    *)
(* API: two named tabs, each a sequence of rows of string cells (what      *)
(* values().get returns).  Row 1 of a tab is whatever was written first;   *)
(* the code skips it as "the header" (values[1:]).  Numbers written by the *)
(* code read back as their decimal text, and float() parses them again.   *)
(* Amounts are whole currency units (no fractional part is modelled).      *)
(***************************************************************************)
EXTENDS Integers, Sequences, FiniteSets, TLC

VARIABLES sheets, expenses, totals, stale, edits, last, inv

vars == <<sheets, expenses, totals, stale, edits, last, inv>>

\* Bound on the number of rows of the Expenses tab (header row included).
MaxRows == 3

\* Bound on the number of external edits of ledger cells in one behaviour.
MaxEdits == 1

----------------------------------------------------------------------------
(* Strings and conversions *)

\* datetime.now() as seen by the process: a fixed calendar day.
Today == "2024-04-10"

\* The seven per-category keys of the totals dict, in column order.
CategoryKeys ==
    <<"food", "transport", "utilities", "shopping", "entertainment",
      "healthcare", "other">>

Categories == {CategoryKeys[i] : i \in 1..Len(CategoryKeys)}

\* Keys of the totals dict built by _update_monthly_totals.
TotalsKeys == {"total"} \cup Categories

\* The category strings a ledger cell carries in this model.
CategoryStrings == {"food", "Food", "transport", "total", "groceries", "other", ""}

\* str.lower() on the category strings of the model.
Lower(s) ==
    CASE s = "Food" -> "food"
      [] s = "FOOD" -> "food"
      [] s = "Total" -> "total"
      [] s = "Other" -> "other"
      [] OTHER -> s

\* Largest number any cell of the model can hold: every row's amount counted
\* twice.
MaxNumber == 2 * 15 * (MaxRows + 1)

\* float(s) succeeds on the decimal text of a number.
IsNumeric(s) == \E n \in 0..MaxNumber : ToString(n) = s

Float(s) == CHOOSE n \in 0..MaxNumber : ToString(n) = s

\* datetime.strptime(date_str, '%Y-%m-%d'): <<year, month, day>>, or <<>>
\* when the text does not match the format (ValueError).
Strptime(date_str) ==
    CASE date_str = "2024-03-01" -> <<2024, 3, 1>>
      [] date_str = "2024-03-02" -> <<2024, 3, 2>>
      [] date_str = "2024-3-5"   -> <<2024, 3, 5>>
      [] date_str = "2024-04-01" -> <<2024, 4, 1>>
      [] date_str = "2024-04-10" -> <<2024, 4, 10>>
      [] OTHER -> <<>>

Pad2(n) == IF n < 10 THEN "0" \o ToString(n) ELSE ToString(n)

\* strftime('%Y-%m') of a parsed date.
StrftimeMonth(d) == ToString(d[1]) \o "-" \o Pad2(d[2])

\* dict.get(key, default) on a dict modelled as a function.
Get(d, key, default) == IF key \in DOMAIN d THEN d[key] ELSE default

----------------------------------------------------------------------------
(* The two tabs *)

SheetTitles == {"Expenses", "Monthly_Totals"}

expense_headers ==
    [Date |-> "Date", Amount |-> "Amount", Category |-> "Category",
     Description |-> "Description", Merchant |-> "Merchant", Month |-> "Month"]

monthly_headers ==
    [month |-> "Month", total |-> "Total_Amount", food |-> "Food",
     transport |-> "Transport", utilities |-> "Utilities",
     shopping |-> "Shopping", entertainment |-> "Entertainment",
     healthcare |-> "Healthcare", other |-> "Other"]

\* A header write that inserts the header above the rows already there.
UpdateRow1_Insert(rows, header) == <<header>> \o rows

\* values().update(range='<tab>!A1:..1'): overwrite row 1, creating it in an
\* empty tab.
UpdateRow1(rows, header) ==
    IF rows = <<>> THEN <<header>> ELSE [rows EXCEPT ![1] = header]

\* An append that skips a row the tab already holds.
ValuesAppend_Unique(rows, row) ==
    IF \E i \in 1..Len(rows) : rows[i] = row THEN rows ELSE Append(rows, row)

\* values().append(range='<tab>!A:..'): one new row after the last row.
ValuesAppend(rows, row) == Append(rows, row)

\* values().update(range='<tab>!A{i}:I{i}'): overwrite row i in place.
ValuesUpdate(rows, i, row) == [rows EXCEPT ![i] = row]

\* values[1:] - the rows the code treats as data.
DataRows(rows) == IF rows = <<>> THEN <<>> ELSE Tail(rows)

----------------------------------------------------------------------------
(* SheetsManager.  Every operation takes the spreadsheet S =               *)
(* [sheets, expenses, totals] and `fail`, the API call of this invocation  *)
(* that raises ("none": every call answers).  A call on a tab that does    *)
(* not exist raises too.                                                   *)

Store(sh, ex, to) == [sheets |-> sh, expenses |-> ex, totals |-> to]

\* _setup_headers: two header writes inside one try; an exception is logged
\* and swallowed, skipping what follows it.
SetupHeaders(S, fail) ==
    IF fail = "expenses_header" \/ "Expenses" \notin S.sheets
    THEN S
    ELSE LET S1 == [S EXCEPT !.expenses = UpdateRow1(@, expense_headers)]
         IN  IF fail = "totals_header" \/ "Monthly_Totals" \notin S.sheets
             THEN S1
             ELSE [S1 EXCEPT !.totals = UpdateRow1(@, monthly_headers)]

\* The addSheet requests setup_sheets collects.
SetupRequests(S) == SheetTitles \ S.sheets

\* setup_sheets: [store, ret, created], created being the tabs the
\* batchUpdate call added (empty when no batchUpdate was issued).
SetupSheets(S, fail) ==
    IF fail = "get"
    THEN [store |-> S, ret |-> FALSE, created |-> {}]
    ELSE LET requests == SetupRequests(S)
         IN  IF requests # {} /\ fail = "batchUpdate"
             THEN [store |-> S, ret |-> FALSE, created |-> {}]
             ELSE [store |-> SetupHeaders([S EXCEPT !.sheets = @ \cup requests], fail),
                   ret |-> TRUE,
                   created |-> requests]

\* The totals dict before the scan.
ZeroTotals == [k \in TotalsKeys |-> 0]

\* The month test of the scan: len(row) >= 6 and row[5] == month_str.
InMonth(row, month_str) == row.Month # "" /\ row.Month = month_str

\* One iteration of the scan over the ledger rows.
AddRow(acc, row) ==
    LET amount == IF row.Amount # "" THEN Float(row.Amount) ELSE 0
        category == IF row.Category # "" THEN Lower(row.Category) ELSE "other"
        t1 == [acc EXCEPT !["total"] = @ + amount]
    IN  IF category \in DOMAIN acc
        THEN [t1 EXCEPT ![category] = @ + amount]
        ELSE [t1 EXCEPT !["other"] = @ + amount]

RECURSIVE ScanRows(_, _, _)
ScanRows(rows, month_str, acc) ==
    IF rows = <<>>
    THEN acc
    ELSE ScanRows(Tail(rows), month_str,
                  IF InMonth(Head(rows), month_str)
                  THEN AddRow(acc, Head(rows))
                  ELSE acc)

\* The category totals of month_str over expense_values[1:].
CalcTotals(expense_values, month_str) ==
    ScanRows(DataRows(expense_values), month_str, ZeroTotals)

\* float(row[1]) raises ValueError on a cell that is no number.
ScanRaises(expense_values, month_str) ==
    \E i \in 2..Len(expense_values) :
        /\ InMonth(expense_values[i], month_str)
        /\ expense_values[i].Amount # ""
        /\ ~IsNumeric(expense_values[i].Amount)

\* The sheet row (1-based) of the first data row keyed month_str, 0 for None.
FindMonthRow(values, month_str) ==
    LET hits == {i \in 2..Len(values) : values[i].month = month_str}
    IN  IF hits = {} THEN 0 ELSE CHOOSE i \in hits : \A j \in hits : i <= j

\* new_row: the month key and the eight sums, as the sheet shows them.
NewRow(month_str, t) ==
    [month |-> month_str, total |-> ToString(t["total"]),
     food |-> ToString(t["food"]), transport |-> ToString(t["transport"]),
     utilities |-> ToString(t["utilities"]), shopping |-> ToString(t["shopping"]),
     entertainment |-> ToString(t["entertainment"]),
     healthcare |-> ToString(t["healthcare"]), other |-> ToString(t["other"])]

\* The write that ends the recompute: in place when the month has a row,
\* appended otherwise.
WriteTotals(values, month_row, new_row) ==
    IF month_row # 0
    THEN ValuesUpdate(values, month_row, new_row)
    ELSE ValuesAppend(values, new_row)

\* _update_monthly_totals: [store, done]; every exception is logged and
\* swallowed, leaving the summary tab as it was.
UpdateMonthlyTotals(S, month_str, fail) ==
    IF \/ fail \in {"totals_get", "expenses_get", "totals_write"}
       \/ "Monthly_Totals" \notin S.sheets
       \/ "Expenses" \notin S.sheets
       \/ ScanRaises(S.expenses, month_str)
    THEN [store |-> S, done |-> FALSE]
    ELSE LET month_row == FindMonthRow(S.totals, month_str)
             new_row == NewRow(month_str, CalcTotals(S.expenses, month_str))
         IN  [store |-> [S EXCEPT !.totals = WriteTotals(@, month_row, new_row)],
              done |-> TRUE]

\* row_data of log_expense, as the sheet shows it.
RowData(expense_data, date_str, month_str) ==
    [Date |-> date_str,
     Amount |-> ToString(Get(expense_data, "amount", 0)),
     Category |-> Get(expense_data, "category", "other"),
     Description |-> Get(expense_data, "description", ""),
     Merchant |-> Get(expense_data, "merchant", ""),
     Month |-> month_str]

\* log_expense: [store, ret, month, wrote, recomputed].
LogExpense(S, expense_data, fail) ==
    LET date_str == Get(expense_data, "date", Today)
        parsed == Strptime(date_str)
    IN  IF parsed = <<>>
        THEN [store |-> S, ret |-> FALSE, month |-> "", wrote |-> FALSE,
              recomputed |-> FALSE]
        ELSE LET month_str == StrftimeMonth(parsed)
             IN  IF fail = "expenses_append" \/ "Expenses" \notin S.sheets
                 THEN [store |-> S, ret |-> FALSE, month |-> month_str,
                       wrote |-> FALSE, recomputed |-> FALSE]
                 ELSE LET S1 == [S EXCEPT !.expenses =
                                    ValuesAppend(@, RowData(expense_data, date_str, month_str))]
                          u == UpdateMonthlyTotals(S1, month_str, fail)
                      IN  [store |-> u.store, ret |-> TRUE, month |-> month_str,
                           wrote |-> TRUE, recomputed |-> u.done]

\* float(row[k]) if len(row) > k and row[k] else 0
CellValue(cell) == IF cell # "" THEN Float(cell) ELSE 0

\* The dict get_monthly_total returns when no row matches or a call raises.
NoRowSummary(month_str) == [month |-> month_str, total |-> 0]

\* The dict get_monthly_total builds from the matching row.
RowSummary(row) ==
    [month |-> row.month, total |-> CellValue(row.total),
     food |-> CellValue(row.food), transport |-> CellValue(row.transport),
     utilities |-> CellValue(row.utilities), shopping |-> CellValue(row.shopping),
     entertainment |-> CellValue(row.entertainment),
     healthcare |-> CellValue(row.healthcare), other |-> CellValue(row.other)]

RowRaises(row) ==
    \E k \in TotalsKeys : row[k] # "" /\ ~IsNumeric(row[k])

\* get_monthly_total; month_str = "" stands for the argument left out.
GetMonthlyTotal(S, month_arg, fail) ==
    LET month_str == IF month_arg = "" THEN StrftimeMonth(Strptime(Today)) ELSE month_arg
        month_row == FindMonthRow(S.totals, month_str)
    IN  IF fail = "totals_get" \/ "Monthly_Totals" \notin S.sheets
        THEN NoRowSummary(month_str)
        ELSE IF month_row = 0
             THEN NoRowSummary(month_str)
             ELSE IF RowRaises(S.totals[month_row])
                  THEN NoRowSummary(month_str)
                  ELSE RowSummary(S.totals[month_row])

----------------------------------------------------------------------------
(* ExpenseTracker and the webhook router (src/app.py) *)

\* What model.generate_content answers: it raises, answers nothing, or
\* answers text that json.loads rejects ("garbage") or parses to `value`.
Raises == [kind |-> "raise", value |-> <<>>]
EmptyResponse == [kind |-> "empty", value |-> <<>>]
Garbage == [kind |-> "garbage", value |-> <<>>]
Json(v) == [kind |-> "json", value |-> v]

\* extract_expense_data: the dict (or other JSON value) handed to the router.
\* `ai` is whether GEMINI_API_KEY was set (self.model is not None).
ExtractExpenseData(ai, response) ==
    IF ~ai THEN [error |-> "AI service not available"]
    ELSE CASE response.kind = "raise" -> [error |-> "Processing failed"]
           [] response.kind = "empty" -> [error |-> "No response from AI"]
           [] response.kind = "garbage" -> [error |-> "Failed to parse AI response"]
           [] OTHER -> response.value

\* Python truth of a parsed JSON value: None, [] and {} are false.
Truthy(v) == v # <<>>

\* log_to_sheets: `cfg` is whether the lazy SheetsManager could be built.
LogToSheets(S, cfg, expense_data, fail) ==
    IF ~cfg
    THEN [store |-> S, ret |-> FALSE, month |-> "", wrote |-> FALSE,
          recomputed |-> FALSE]
    ELSE LogExpense(S, expense_data, fail)

\* A message sent with send_telegram_message.
Reply(msg, args) == [msg |-> msg, args |-> args]

\* str.title() on the category strings of the model.
Title(s) ==
    CASE s = "food" -> "Food"
      [] s = "transport" -> "Transport"
      [] s = "total" -> "Total"
      [] s = "groceries" -> "Groceries"
      [] s = "N/A" -> "N/A"
      [] OTHER -> s

\* The "Expense Logged!" card.
LoggedCard(expense_data) ==
    Reply("Expense Logged!",
          [amount |-> IF "amount" \in DOMAIN expense_data
                      THEN ToString(expense_data["amount"]) ELSE "N/A",
           category |-> Title(Get(expense_data, "category", "N/A")),
           description |-> Get(expense_data, "description", "N/A"),
           date |-> Get(expense_data, "date", "N/A"),
           merchant |-> Get(expense_data, "merchant", "N/A")])

\* What one invocation of telegram_webhook did.
\* `log` is what log_expense answered, when the router called it.
NoLog == [store |-> <<>>, ret |-> FALSE, month |-> "", wrote |-> FALSE,
          recomputed |-> FALSE]

Outcome(S, status, replies, calls) ==
    [store |-> S, status |-> status, replies |-> replies, calls |-> calls,
     log |-> NoLog]

\* ProcessExpenseData without the test for an error result.
ProcessExpenseData_NoErrorTest(S, cfg, expense_data, fail, calls) ==
    IF ~Truthy(expense_data)
    THEN Outcome(S, 200, <<Reply("Could not process your message", <<>>)>>, calls)
    ELSE LET r == LogToSheets(S, cfg, expense_data, fail)
             calls2 == IF cfg THEN calls \cup {"log_expense"} ELSE calls
             replies == IF r.ret
                        THEN <<Reply("Expense Logged!", <<>>)>>
                        ELSE <<Reply("Failed to log expense", <<>>)>>
         IN  [Outcome(r.store, 200, replies, calls2)
                EXCEPT !.log = IF cfg THEN r ELSE NoLog]

\* Lines 314-338: what the router does with the extractor's result.
ProcessExpenseData(S, cfg, expense_data, fail, calls) ==
    IF ~Truthy(expense_data)
    THEN Outcome(S, 200, <<Reply("Could not process your message", <<>>)>>, calls)
    ELSE IF "error" \in DOMAIN expense_data
         THEN Outcome(S, 200,
                      <<Reply("error", [reason |-> expense_data["error"]])>>, calls)
         ELSE LET r == LogToSheets(S, cfg, expense_data, fail)
                  calls2 == IF cfg THEN calls \cup {"log_expense"} ELSE calls
                  replies == IF r.ret
                             THEN <<LoggedCard(expense_data)>>
                             ELSE <<Reply("Failed to log expense", <<>>)>>
              IN  [Outcome(r.store, 200, replies, calls2)
                     EXCEPT !.log = IF cfg THEN r ELSE NoLog]

\* str.startswith on the texts and mime types of the model.
StartsWithSlash(text) == text \in {"/start", "/summary", "/setup", "/help", "/"}

StartsWithImage(mime_type) == mime_type \in {"image/png", "image/jpeg"}

\* get_monthly_summary: <<>> stands for None (sheets_manager is None).
GetMonthlySummary(S, cfg, fail) ==
    IF ~cfg THEN <<>> ELSE GetMonthlyTotal(S, "", fail)

\* The photo and the image-document branches: download, transcode, extract.
MediaBranch(S, in, what) ==
    IF ~in.download
    THEN Outcome(S, 200, <<Reply("Failed to download " \o what, <<>>)>>, {"download"})
    ELSE IF ~in.image
         THEN Outcome(S, 200, <<Reply("Failed to process " \o what, <<>>)>>, {"download"})
         ELSE ProcessExpenseData(S, in.cfg, ExtractExpenseData(in.ai, in.response),
                                 in.fail, {"download", "extract"})

\* The command branch (lines 263-310).
CommandBranch(S, in, text_content) ==
    CASE text_content = "/start" ->
           Outcome(S, 200, <<Reply("welcome", <<>>)>>, {})
      [] text_content = "/summary" ->
           LET summary == GetMonthlySummary(S, in.cfg, in.fail)
               calls == IF in.cfg THEN {"get_monthly_total"} ELSE {}
           IN  IF ~Truthy(summary)
               THEN Outcome(S, 200, <<Reply("Failed to get summary", <<>>)>>, calls)
               ELSE IF TotalsKeys \subseteq DOMAIN summary
                    THEN Outcome(S, 200, <<Reply("Monthly Summary", summary)>>, calls)
                    ELSE Outcome(S, 500, <<>>, calls)
      [] text_content = "/setup" ->
           IF in.cfg
           THEN LET r == SetupSheets(S, in.fail)
                IN  IF r.ret
                    THEN Outcome(r.store, 200,
                                 <<Reply("Google Sheets setup completed!", <<>>)>>,
                                 {"setup_sheets"})
                    ELSE Outcome(r.store, 200,
                                 <<Reply("Failed to setup Google Sheets", <<>>)>>,
                                 {"setup_sheets"})
           ELSE Outcome(S, 200, <<Reply("Google Sheets not configured", <<>>)>>, {})
      [] OTHER -> Outcome(S, 200, <<>>, {})

\* telegram_webhook handing every document to the media branch, whatever
\* its mime type.
TelegramWebhook_NoMimeTest(S, data, in) ==
    IF ~in.token THEN Outcome(S, 500, <<>>, {})
    ELSE IF ~data.message THEN Outcome(S, 200, <<>>, {})
    ELSE IF ~data.chat_id THEN Outcome(S, 200, <<>>, {})
    ELSE CASE data.type = "photo" -> MediaBranch(S, in, "image")
           [] data.type = "document" -> MediaBranch(S, in, "document")
           [] data.type = "text" ->
                IF StartsWithSlash(data.text)
                THEN CommandBranch(S, in, data.text)
                ELSE ProcessExpenseData(S, in.cfg,
                                        ExtractExpenseData(in.ai, in.response),
                                        in.fail, {"extract"})
           [] OTHER -> ProcessExpenseData(S, in.cfg, <<>>, in.fail, {})

\* telegram_webhook on the posted `data`, with the inputs `in` of this
\* invocation: the process environment and what the collaborators answer.
TelegramWebhook(S, data, in) ==
    IF ~in.token THEN Outcome(S, 500, <<>>, {})
    ELSE IF ~data.message THEN Outcome(S, 200, <<>>, {})
    ELSE IF ~data.chat_id THEN Outcome(S, 200, <<>>, {})
    ELSE CASE data.type = "photo" -> MediaBranch(S, in, "image")
           [] data.type = "document" ->
                IF StartsWithImage(data.mime_type)
                THEN MediaBranch(S, in, "document")
                ELSE Outcome(S, 200, <<Reply("Please send an image file", <<>>)>>, {})
           [] data.type = "text" ->
                IF StartsWithSlash(data.text)
                THEN CommandBranch(S, in, data.text)
                ELSE ProcessExpenseData(S, in.cfg,
                                        ExtractExpenseData(in.ai, in.response),
                                        in.fail, {"extract"})
           [] OTHER -> ProcessExpenseData(S, in.cfg, <<>>, in.fail, {})

----------------------------------------------------------------------------
(* Inputs *)

\* The expense dicts the classifier (or a caller of log_expense) supplies.
ExpenseInputs ==
    { [amount |-> 15, category |-> "Food", date |-> "2024-03-01"],
      [amount |-> 5, category |-> "food", date |-> "2024-03-02",
       description |-> "Lunch", merchant |-> "Cafe"],
      [amount |-> 5, category |-> "total", date |-> "2024-3-5"],
      [amount |-> 7, description |-> "groceries"],
      [amount |-> 5, category |-> "transport", date |-> "01/03/2024"] }

\* The API call of log_expense that raises.
LogFails == {"none", "expenses_append", "totals_get", "expenses_get", "totals_write"}

\* The API call of setup_sheets that raises.
SetupFails == {"none", "get", "batchUpdate", "expenses_header", "totals_header"}

\* The API call of get_monthly_total that raises.
TotalFails == {"none", "totals_get"}

\* The month arguments of get_monthly_total ("" for none).
MonthArgs == {"", "2024-03"}

Message(chat_id, type, mime_type, text) ==
    [message |-> TRUE, chat_id |-> chat_id, type |-> type,
     mime_type |-> mime_type, text |-> text]

\* The updates Telegram posts: no message, a message without chat id, a
\* photo, a document, a text, and a message of another kind.
Updates ==
    { [message |-> FALSE, chat_id |-> FALSE, type |-> "", mime_type |-> "", text |-> ""],
      Message(FALSE, "document", "application/pdf", ""),
      Message(TRUE, "photo", "", ""),
      Message(TRUE, "document", "image/png", ""),
      Message(TRUE, "document", "application/pdf", ""),
      Message(TRUE, "text", "", "/start"),
      Message(TRUE, "text", "", "/summary"),
      Message(TRUE, "text", "", "/setup"),
      Message(TRUE, "text", "", "/help"),
      Message(TRUE, "text", "", "Lunch 15"),
      Message(TRUE, "sticker", "", "") }

\* The inputs of one invocation when nothing goes wrong.
BaseInput ==
    [token |-> TRUE, ai |-> TRUE, cfg |-> TRUE, download |-> TRUE,
     image |-> TRUE, response |-> EmptyResponse, fail |-> "none"]

\* The expense dicts the classifier answers in this model.
ClassifierExpenses ==
    { [amount |-> 15, category |-> "Food", date |-> "2024-03-01"],
      [amount |-> 7, description |-> "groceries"],
      [amount |-> 5, category |-> "transport", date |-> "01/03/2024"] }

\* The API call that raises while the router logs an expense.
RouterLogFails == {"none", "expenses_append", "totals_write"}

\* Inputs that reach the extractor.
ExtractionInputs ==
    {[BaseInput EXCEPT !.ai = FALSE]}
    \cup {[BaseInput EXCEPT !.response = r] :
            r \in {Raises, EmptyResponse, Garbage,
                   Json([error |-> "Not a valid expense"]), Json(<<>>)}}
    \cup {[BaseInput EXCEPT !.response = Json(e), !.fail = f] :
            e \in ClassifierExpenses, f \in RouterLogFails}
    \cup {[BaseInput EXCEPT !.response = Json(e), !.cfg = FALSE] :
            e \in ClassifierExpenses}

\* The inputs that matter to the branch `data` takes.
InputsFor(data) ==
    {[BaseInput EXCEPT !.token = FALSE]} \cup
    (IF ~data.message \/ ~data.chat_id THEN {BaseInput}
     ELSE CASE data.type = "photo" \/ (data.type = "document" /\ StartsWithImage(data.mime_type)) ->
                 {[BaseInput EXCEPT !.download = FALSE], [BaseInput EXCEPT !.image = FALSE]}
                 \cup ExtractionInputs
            [] data.type = "text" /\ ~StartsWithSlash(data.text) -> ExtractionInputs
            [] data.text = "/summary" ->
                 {[BaseInput EXCEPT !.fail = f] : f \in TotalFails}
                 \cup {[BaseInput EXCEPT !.cfg = FALSE]}
            [] data.text = "/setup" ->
                 {[BaseInput EXCEPT !.fail = f] : f \in SetupFails}
                 \cup {[BaseInput EXCEPT !.cfg = FALSE]}
            [] OTHER -> {BaseInput})

----------------------------------------------------------------------------
(* State machine *)

S0 == Store(sheets, expenses, totals)

\* What the last operation was and what it answered.
NoLast ==
    [op |-> "init", ret |-> TRUE, month |-> "",
     wrote |-> FALSE, recomputed |-> FALSE, healed |-> FALSE, created |-> {},
     changed |-> FALSE, configured |-> TRUE,
     result |-> <<>>, data |-> <<>>, status |-> 0, replies |-> <<>>,
     calls |-> {}, expense_data |-> <<>>]

\* The invocations of log_expense the host runs side by side.
Procs == {1, 2}

\* An invocation of log_expense that has not been entered: where it stands
\* (pc, named after the API call it issues next), the call of it that
\* raises, and its locals month_str, month_row and new_row.  overlap,
\* wrote, headed and wlast record its history: whether it ran while another
\* invocation for the same month was in flight, whether it performed its
\* summary write, whether the summary tab held its header row at that
\* write, and whether that write is the latest summary write of all.
Idle ==
    [pc |-> "idle", fail |-> "none", month |-> "", month_row |-> 0,
     new_row |-> <<>>, overlap |-> FALSE, wrote |-> FALSE, headed |-> FALSE,
     wlast |-> FALSE]

\* A new spreadsheet holds neither tab.
Init ==
    /\ sheets = {}
    /\ expenses = <<>>
    /\ totals = <<>>
    /\ stale = {}
    /\ edits = 0
    /\ last = NoLast
    /\ inv = [p \in Procs |-> Idle]

SetStore(S) ==
    /\ sheets' = S.sheets
    /\ expenses' = S.expenses
    /\ totals' = S.totals

\* The months whose summary row is behind the ledger: an append wrote its
\* ledger row and the recompute after it did not finish.
StaleAfter(r) ==
    IF r.wrote
    THEN IF r.recomputed THEN stale \ {r.month} ELSE stale \cup {r.month}
    ELSE stale

Setup(fail) ==
    \E r \in {SetupSheets(S0, fail)} :
        /\ SetStore(r.store)
        /\ last' = [NoLast EXCEPT !.op = "setup_sheets",
                                  !.ret = r.ret, !.created = r.created,
                                  !.changed = (r.store # S0)]
        /\ UNCHANGED <<stale, edits, inv>>

LogExpenseCall(expense_data, fail) ==
    /\ \E r \in {LogExpense(S0, expense_data, fail)} :
           /\ Len(r.store.expenses) <= MaxRows
           /\ SetStore(r.store)
           /\ stale' = StaleAfter(r)
           /\ last' = [NoLast EXCEPT !.op = "log_expense",
                                     !.ret = r.ret, !.month = r.month,
                                     !.wrote = r.wrote,
                                     !.recomputed = r.recomputed,
                                     !.healed = r.recomputed /\ r.month \in stale]
    /\ UNCHANGED <<edits, inv>>

MonthlyTotal(month_arg, fail) ==
    /\ last' = [NoLast EXCEPT !.op = "get_monthly_total",
                              !.month = month_arg,
                              !.result = GetMonthlyTotal(S0, month_arg, fail)]
    /\ UNCHANGED <<sheets, expenses, totals, stale, edits, inv>>

Webhook(data, in) ==
    /\ \E o \in {TelegramWebhook(S0, data, in)} :
           /\ Len(o.store.expenses) <= MaxRows
           /\ SetStore(o.store)
           /\ stale' = StaleAfter(o.log)
           /\ last' = [NoLast EXCEPT !.op = "telegram_webhook", !.data = data,
                                     !.configured = in.token,
                                     !.changed = (o.store # S0),
                                     !.status = o.status, !.replies = o.replies,
                                     !.calls = o.calls, !.ret = o.log.ret,
                                     !.month = o.log.month, !.wrote = o.log.wrote,
                                     !.recomputed = o.log.recomputed,
                                     !.healed = o.log.recomputed /\ o.log.month \in stale,
                                     !.expense_data =
                                         IF "extract" \in o.calls
                                         THEN ExtractExpenseData(in.ai, in.response)
                                         ELSE <<>>]
    /\ UNCHANGED <<edits, inv>>

\* What someone retypes into an amount cell of the ledger.
EditedAmounts == {"7", "n/a"}

\* An edit made in the spreadsheet itself, outside this program.
ExternalEdit ==
    /\ edits < MaxEdits
    /\ \E i \in 2..Len(expenses), a \in EditedAmounts :
          expenses' = [expenses EXCEPT ![i].Amount = a]
    /\ edits' = edits + 1
    /\ last' = [NoLast EXCEPT !.op = "external_edit"]
    /\ UNCHANGED <<sheets, totals, stale, inv>>

----------------------------------------------------------------------------
(* log_expense one API call at a time.  Each call on the spreadsheet is    *)
(* one step; between the steps of one invocation the steps of another may  *)
(* run (the code takes no lock).                                           *)

InFlight(p) == inv[p].pc \notin {"idle", "done"}

\* The invocation p returns: its record, and what the caller was answered.
Return(p, rec, ret, wrote_ledger) ==
    /\ inv' = [inv EXCEPT ![p] = [rec EXCEPT !.pc = "done", !.fail = "none",
                                             !.month_row = 0, !.new_row = <<>>]]
    /\ stale' = IF wrote_ledger
                THEN IF rec.wrote THEN stale \ {rec.month}
                                  ELSE stale \cup {rec.month}
                ELSE stale
    /\ last' = [NoLast EXCEPT !.op = "log_expense", !.ret = ret,
                              !.month = rec.month, !.wrote = wrote_ledger,
                              !.recomputed = rec.wrote,
                              !.healed = rec.wrote /\ rec.month \in stale]

\* Lines 102-121: the date is parsed, row_data built and appended to the
\* ledger.  An exception here makes log_expense return False.
AppendStep(p, expense_data, fail) ==
    /\ ~InFlight(p)
    /\ LET date_str == Get(expense_data, "date", Today)
           parsed == Strptime(date_str)
       IN  IF parsed = <<>>
           THEN /\ Return(p, [Idle EXCEPT !.fail = fail], FALSE, FALSE)
                /\ UNCHANGED <<sheets, expenses, totals>>
           ELSE LET month_str == StrftimeMonth(parsed)
                    rec == [Idle EXCEPT !.fail = fail, !.month = month_str]
                    others == {q \in Procs \ {p} :
                                  InFlight(q) /\ inv[q].month = month_str}
                IN  IF fail = "expenses_append" \/ "Expenses" \notin sheets
                    THEN /\ Return(p, rec, FALSE, FALSE)
                         /\ UNCHANGED <<sheets, expenses, totals>>
                    ELSE /\ Len(expenses) < MaxRows
                         /\ expenses' = ValuesAppend(expenses,
                                            RowData(expense_data, date_str, month_str))
                         /\ inv' = [q \in Procs |->
                                      IF q = p
                                      THEN [rec EXCEPT !.pc = "totals_get",
                                                       !.overlap = (others # {})]
                                      ELSE IF q \in others
                                           THEN [inv[q] EXCEPT !.overlap = TRUE]
                                           ELSE inv[q]]
                         /\ UNCHANGED <<sheets, totals, stale, last>>
    /\ UNCHANGED edits

\* Lines 135-148: the summary tab is read and the month's row looked up.
TotalsGetStep(p) ==
    /\ inv[p].pc = "totals_get"
    /\ IF inv[p].fail = "totals_get" \/ "Monthly_Totals" \notin sheets
       THEN Return(p, inv[p], TRUE, TRUE)
       ELSE /\ inv' = [inv EXCEPT ![p].pc = "expenses_get",
                                  ![p].month_row = FindMonthRow(totals, inv[p].month)]
            /\ UNCHANGED <<stale, last>>
    /\ UNCHANGED <<sheets, expenses, totals, edits>>

\* Lines 150-192: the ledger is read and the month's sums computed.
ExpensesGetStep(p) ==
    /\ inv[p].pc = "expenses_get"
    /\ IF \/ inv[p].fail = "expenses_get"
          \/ "Expenses" \notin sheets
          \/ ScanRaises(expenses, inv[p].month)
       THEN Return(p, inv[p], TRUE, TRUE)
       ELSE /\ inv' = [inv EXCEPT ![p].pc = "totals_write",
                                  ![p].new_row = NewRow(inv[p].month,
                                                        CalcTotals(expenses, inv[p].month))]
            /\ UNCHANGED <<stale, last>>
    /\ UNCHANGED <<sheets, expenses, totals, edits>>

\* Lines 194-209: the row found is overwritten, or a row appended when none
\* was found; then log_expense returns True.
TotalsWriteStep(p) ==
    /\ inv[p].pc = "totals_write"
    /\ IF inv[p].fail = "totals_write"
       THEN /\ Return(p, inv[p], TRUE, TRUE)
            /\ UNCHANGED totals
       ELSE /\ totals' = WriteTotals(totals, inv[p].month_row, inv[p].new_row)
            /\ stale' = stale \ {inv[p].month}
            /\ last' = [NoLast EXCEPT !.op = "log_expense", !.ret = TRUE,
                                      !.month = inv[p].month, !.wrote = TRUE,
                                      !.recomputed = TRUE,
                                      !.healed = inv[p].month \in stale]
            /\ inv' = [q \in Procs |->
                         IF q = p
                         THEN [inv[p] EXCEPT !.pc = "done", !.month_row = 0,
                                             !.wrote = TRUE, !.wlast = TRUE,
                                             !.headed = (/\ totals # <<>>
                                                         /\ totals[1] = monthly_headers)]
                         ELSE [inv[q] EXCEPT !.wlast = FALSE]]
    /\ UNCHANGED <<sheets, expenses, edits>>

\* The store as its callers drive it: SheetsManager's three operations.
Next ==
    \/ \E fail \in SetupFails : Setup(fail)
    \/ \E e \in ExpenseInputs, fail \in LogFails : LogExpenseCall(e, fail)
    \/ \E m \in MonthArgs, fail \in TotalFails : MonthlyTotal(m, fail)

Spec == Init /\ [][Next]_vars

\* The store with the edits made in the spreadsheet itself.
NextEdited == Next \/ ExternalEdit

SpecEdited == Init /\ [][NextEdited]_vars

\* The deployed program: every operation arrives as a webhook invocation.
NextRouter == \E data \in Updates : \E in \in InputsFor(data) : Webhook(data, in)

SpecRouter == Init /\ [][NextRouter]_vars

\* The expense dicts of the overlapping invocations.
OverlapExpenses ==
    { [amount |-> 15, category |-> "Food", date |-> "2024-03-01"],
      [amount |-> 5, category |-> "food", date |-> "2024-03-02",
       description |-> "Lunch", merchant |-> "Cafe"],
      [amount |-> 7, description |-> "groceries"] }

\* The API call of setup_sheets that raises, in the runs with overlap.
OverlapSetupFails == {"none", "totals_header"}

\* The store with the host running invocations of log_expense side by side.
NextOverlap ==
    \/ \E fail \in OverlapSetupFails : Setup(fail)
    \/ \E p \in Procs, e \in OverlapExpenses, fail \in LogFails : AppendStep(p, e, fail)
    \/ \E p \in Procs : TotalsGetStep(p)
    \/ \E p \in Procs : ExpensesGetStep(p)
    \/ \E p \in Procs : TotalsWriteStep(p)
    \/ \E m \in MonthArgs : MonthlyTotal(m, "none")

SpecOverlap == Init /\ [][NextOverlap]_vars

----------------------------------------------------------------------------
(* What the specification says of a summary row, stated over the ledger *)

\* Both tabs hold their fixed header row in row 1.
HeadersInPlace ==
    /\ SheetTitles \subseteq sheets
    /\ expenses # <<>> /\ expenses[1] = expense_headers
    /\ totals # <<>> /\ totals[1] = monthly_headers

\* The enumerant a category string belongs to: itself when it matches one of
\* the seven ignoring case, other for everything else.
Bucket(category) ==
    IF Lower(category) \in Categories THEN Lower(category) ELSE "other"

\* The amount a ledger row carries (an empty or non-numeric cell counts 0).
LedgerAmount(row) == IF IsNumeric(row.Amount) THEN Float(row.Amount) ELSE 0

\* The sum of the amounts of the rows keyed month_str: all of them for
\* "total", those of one enumerant otherwise.
RECURSIVE LedgerSum(_, _, _)
LedgerSum(rows, month_str, key) ==
    IF rows = <<>>
    THEN 0
    ELSE (IF /\ Head(rows).Month = month_str
             /\ (key = "total" \/ Bucket(Head(rows).Category) = key)
          THEN LedgerAmount(Head(rows))
          ELSE 0) + LedgerSum(Tail(rows), month_str, key)

\* The summary row the last recompute wrote for month_str.
WrittenRow(month_str) ==
    IF FindMonthRow(totals, month_str) # 0
    THEN totals[FindMonthRow(totals, month_str)]
    ELSE totals[1]

\* The last operation was an append every step of which succeeded.
AppendSucceeded ==
    /\ last.op = "log_expense"
    /\ last.ret /\ last.wrote /\ last.recomputed

\* The month keys the data rows of the summary tab carry.
MonthKeys == {totals[i].month : i \in 2..Len(totals)}

\* The data rows of the summary tab keyed month_str.
RowsOf(month_str) == {i \in 2..Len(totals) : totals[i].month = month_str}

----------------------------------------------------------------------------
(* Claims *)

\* C1: after an append every step of which succeeded (no edit since), with
\* both header rows in place, monthlyTotal of the append's month reports as
\* total the sum of the amounts of all ledger rows keyed to that month.
C1_TotalIsLedgerSum ==
    (AppendSucceeded /\ HeadersInPlace)
        => GetMonthlyTotal(S0, last.month, "none")["total"]
             = LedgerSum(DataRows(expenses), last.month, "total")

\* C2: in every summary row the recompute wrote, the total field equals the
\* sum of the seven per-category fields.
C2_TotalIsSumOfCategories ==
    \A i \in 1..Len(totals) :
        totals[i] # monthly_headers
            => CellValue(totals[i].total)
                 = CellValue(totals[i].food) + CellValue(totals[i].transport)
                   + CellValue(totals[i].utilities) + CellValue(totals[i].shopping)
                   + CellValue(totals[i].entertainment)
                   + CellValue(totals[i].healthcare) + CellValue(totals[i].other)

\* C3: the recompute adds each ledger row of the month to the bucket of the
\* enumerant its category matches ignoring case, and to other when it
\* matches none: every per-category field of the row it wrote is the sum of
\* the amounts of the month's rows of that bucket.
C3_AmountsGoToTheirBucket ==
    AppendSucceeded
        => \A k \in Categories :
              CellValue(WrittenRow(last.month)[k])
                = LedgerSum(DataRows(expenses), last.month, k)

\* C4: monthlyTotal for a month without summary row returns a summary that
\* holds total and all seven per-category fields, each 0.
C4_NoRowGivesZeroFilled ==
    (/\ last.op = "get_monthly_total"
     /\ HeadersInPlace
     /\ FindMonthRow(totals, last.result["month"]) = 0)
        => /\ TotalsKeys \subseteq DOMAIN last.result
           /\ \A k \in TotalsKeys \cap DOMAIN last.result : last.result[k] = 0

\* C5: an append whose ledger row was written and whose summary recompute
\* failed returns failure.
C5_FailedRecomputeReturnsFailure ==
    (last.op = "log_expense" /\ last.wrote /\ ~last.recomputed) => ~last.ret

\* C6: when an append to a month left its ledger row without recomputing
\* the summary, the next append to that month every step of which succeeds
\* leaves a summary row equal to the sums over all ledger rows of the month.
C6_NextAppendRepairsSummary ==
    (AppendSucceeded /\ last.healed /\ HeadersInPlace)
        => \A k \in TotalsKeys :
              CellValue(WrittenRow(last.month)[k])
                = LedgerSum(DataRows(expenses), last.month, k)

\* The store state as one value, now and after the step.
StoreUnchanged == UNCHANGED <<sheets, expenses, totals>>

S1 == Store(sheets', expenses', totals')

\* C7: when the extractor yields an error result, the router does not call
\* log_expense, leaves ledger and summary as they were, and sends the
\* failure reason as its one reply.
C7_ExtractionErrorNeverAppends ==
    [][ (/\ last'.op = "telegram_webhook"
         /\ "error" \in DOMAIN last'.expense_data)
          => /\ "log_expense" \notin last'.calls
             /\ StoreUnchanged
             /\ last'.replies
                  = <<Reply("error", [reason |-> last'.expense_data["error"]])>> ]_vars

\* A webhook invocation on a ledger that holds rows, in which the
\* classifier answered "Not a valid expense" and the reason was sent.
C7_Witness ==
    /\ last.op = "telegram_webhook"
    /\ "error" \in DOMAIN last.expense_data
    /\ last.expense_data["error"] = "Not a valid expense"
    /\ last.replies # <<>>
    /\ HeadersInPlace
    /\ Len(expenses) >= 2

\* The router classified the update as a document that is no image.
DocumentOther(data) ==
    /\ data.message /\ data.chat_id
    /\ data.type = "document"
    /\ ~StartsWithImage(data.mime_type)

\* C8: for a document whose mime type does not start with image/ (a message
\* with a chat id, the bot token configured) the router sends the one reply
\* "Please send an image file" and stops: no download, no extraction, no
\* ledger append, the store as it was.
C8_OtherDocumentOnlyReplies ==
    [][ (/\ last'.op = "telegram_webhook"
         /\ last'.configured
         /\ DocumentOther(last'.data))
          => /\ last'.replies = <<Reply("Please send an image file", <<>>)>>
             /\ last'.calls = {}
             /\ last'.status = 200
             /\ StoreUnchanged ]_vars

\* A PDF document arrived while the ledger holds rows.
C8_Witness ==
    /\ last.op = "telegram_webhook"
    /\ last.configured
    /\ DocumentOther(last.data)
    /\ last.data.mime_type = "application/pdf"
    /\ last.replies # <<>>
    /\ Len(expenses) >= 2

\* C9: an append that reaches the ledger write adds exactly one row at the
\* end and leaves every earlier row as it was, also when the same record is
\* already there; an append that does not reach it, the summary recompute
\* and monthlyTotal leave the ledger as it was.
C9_LedgerAppendOnly ==
    [][ /\ last'.op = "log_expense"
          => IF last'.wrote
             THEN /\ Len(expenses') = Len(expenses) + 1
                  /\ SubSeq(expenses', 1, Len(expenses)) = expenses
             ELSE expenses' = expenses
        /\ last'.op = "get_monthly_total" => expenses' = expenses ]_vars

\* An append has just written a row equal to the row before it.
C9_Witness ==
    /\ last.op = "log_expense"
    /\ last.wrote
    /\ Len(expenses) >= 3
    /\ expenses[Len(expenses)] = expenses[Len(expenses) - 1]

\* C10: setup run when both tabs exist with their header rows creates no
\* tab and leaves the store as it was; and after a run of setup in which
\* every call succeeded, a second run leaves the store as the first left it.
C10_SetupIdempotent ==
    [][ last'.op = "setup_sheets"
          => /\ HeadersInPlace => (last'.created = {} /\ StoreUnchanged)
             /\ S1 = SetupSheets(S0, "none").store
                  => SetupSheets(S1, "none").store = S1 ]_vars

\* Setup has run on tabs that held their headers and ledger rows.
C10_Witness ==
    /\ last.op = "setup_sheets"
    /\ last.ret
    /\ last.created = {}
    /\ ~last.changed
    /\ HeadersInPlace
    /\ Len(expenses) >= 2

\* C11: with both header rows in place, whether appends ran one after
\* another or overlapped, the summary tab holds at most one data row per
\* month key.
C11_OneRowPerMonth ==
    HeadersInPlace => \A m \in MonthKeys : Cardinality(RowsOf(m)) <= 1

\* Both invocations have returned, each was an append to month_str, and
\* they ran side by side.
BothCompleted(month_str) ==
    \A p \in Procs :
        /\ inv[p].pc = "done"
        /\ inv[p].month = month_str
        /\ inv[p].overlap

\* C12: when two appends to the same month overlapped and both have
\* returned (both header rows in place, now and at the write), monthlyTotal
\* of that month returns exactly the values of the summary row written by
\* the invocation that performed its summary write last.
C12_LastWriterWins ==
    \A m \in {"2024-03", "2024-04"} :
        (HeadersInPlace /\ BothCompleted(m))
            => \A w \in Procs :
                  (inv[w].wlast /\ inv[w].headed)
                      => GetMonthlyTotal(S0, m, "none") = RowSummary(inv[w].new_row)

\* The router took the update as a text that starts with '/': the bot token
\* is configured and the message has a chat id.
CommandText(data) ==
    /\ data.message /\ data.chat_id
    /\ data.type = "text"
    /\ StartsWithSlash(data.text)

\* The messages each command answers with.
CommandReplies(text) ==
    CASE text = "/start" -> {"welcome"}
      [] text = "/summary" -> {"Monthly Summary", "Failed to get summary"}
      [] text = "/setup" -> {"Google Sheets setup completed!",
                             "Failed to setup Google Sheets",
                             "Google Sheets not configured"}
      [] OTHER -> {}

\* C13: for a text that starts with '/' the router calls neither the
\* extractor nor log_expense; /start, /summary and /setup are answered with
\* exactly one reply, a reply of that command, and every other text with a
\* leading '/' with no reply at all.
C13_CommandsAnswered ==
    (/\ last.op = "telegram_webhook"
     /\ last.configured
     /\ CommandText(last.data))
        => /\ "extract" \notin last.calls
           /\ "log_expense" \notin last.calls
           /\ IF last.data.text \in {"/start", "/summary", "/setup"}
              THEN /\ Len(last.replies) = 1
                   /\ last.replies[1].msg \in CommandReplies(last.data.text)
              ELSE last.replies = <<>>

====
